---- MODULE Spec2Model ----
(***************************************************************************)
(* wp-news-scheduler: the slot clock, the uplift scoring engine, the       *)
(* selector and the publisher run, modelled from the TypeScript sources.   *)
(*                                                                         *)
(* Text is a sequence of one-character tokens; "<i>" stands for one whole  *)
(* HTML tag, which sanitizeHtml (allowedTags: []) removes.                 *)
(***************************************************************************)
EXTENDS Integers, Sequences, FiniteSets, TLC

VARIABLES
    args,         \* harness: the arguments of one call of a pure function
    ret,          \* harness: what the call returned
    now,          \* the wall clock: the current instant, in minutes (UTC)
    systemZone,   \* the time zone of the publisher process
    stateFile,    \* data/state.json
    wpSlugs,      \* the slugs of the posts the WordPress site holds
    posted,       \* history: every successful publishPost call, in order
    runs,         \* history: the number of publisher runs started
    argv,         \* the slot named on the command line of the current run
    dashboard,    \* the last response of the admin API
    pc,           \* where the current publisher run stands
    slot,         \* publish(): slot
    state,        \* publish(): state
    loadedUrls,   \* history: state.publishedUrls as loadState returned it
    items,        \* publish(): items
    unpublished,  \* publish(): unpublished
    candidates,   \* publish(): candidates
    cursor,       \* publish(): the index of `item` in the for-of loop
    attempts,     \* history: the candidates the loop has tried in this run
    storeOps      \* history: the store calls of this run so far, in order

pureVars == <<args, ret>>
envVars == <<now, systemZone, stateFile, wpSlugs, posted, runs, argv, dashboard>>
runVars ==
    <<pc, slot, state, loadedUrls, items, unpublished, candidates, cursor, attempts, storeOps>>
pubVars == <<envVars, runVars>>
vars == <<pureVars, pubVars>>

(***************************************************************************)
(* Bounds of the explored inputs.                                          *)
(***************************************************************************)
MaxTextLen == 2
MaxExcludes == 2
MaxBoosts == 2

(***************************************************************************)
(* Values, and the state in which no publisher run is under way.           *)
(***************************************************************************)
\* Slot | null (also: slot?: Slot left undefined)
NoSlot == [isNull |-> TRUE]
SlotOf(name) == [isNull |-> FALSE, name |-> name]

Pending == [done |-> FALSE]
Returned(v) == [done |-> TRUE, value |-> v]
NoCall == [fn |-> "none"]

\* the State of the dedup/audit store before anything was recorded
EmptyState == [publishedUrls |-> {}, published |-> <<>>, auditLog |-> <<>>]

\* no state file written yet
AbsentFile == [exists |-> FALSE, content |-> EmptyState]
FileWith(content) == [exists |-> TRUE, content |-> content]

\* the admin API has answered no request yet
NoResponse == [status |-> 0]

RunIdle ==
    /\ pc = "idle"
    /\ slot = NoSlot
    /\ state = EmptyState
    /\ loadedUrls = {}
    /\ items = <<>>
    /\ unpublished = <<>>
    /\ candidates = <<>>
    /\ cursor = 0
    /\ attempts = <<>>
    /\ storeOps = <<>>

EnvFresh ==
    /\ now = 0
    /\ stateFile = AbsentFile
    /\ wpSlugs = {}
    /\ posted = <<>>
    /\ runs = 0
    /\ argv = NoSlot
    /\ dashboard = NoResponse

HarnessInit(inputs) ==
    /\ args \in inputs
    /\ ret = Pending
    /\ systemZone = "UTC"
    /\ EnvFresh
    /\ RunIdle

(***************************************************************************)
(* Generic helpers.                                                        *)
(***************************************************************************)
SeqsUpTo(S, n) == UNION {[1..k -> S] : k \in 0..n}

Range(s) == {s[i] : i \in DOMAIN s}

(***************************************************************************)
(* Strings (String.prototype.includes / toLowerCase / trim, and the        *)
(* sanitize-html call with no allowed tags).                               *)
(***************************************************************************)
Letters == {"a", "B"}
Whitespace == {" "}
Tags == {"<i>"}
TextAlphabet == Letters \cup Whitespace \cup Tags

LowerChar(c) == CASE c = "A" -> "a" [] c = "B" -> "b" [] OTHER -> c

toLowerCase(s) == [i \in 1..Len(s) |-> LowerChar(s[i])]

includes(text, word) ==
    \E i \in 0..(Len(text) - Len(word)) : SubSeq(text, i + 1, i + Len(word)) = word

sanitizeHtml(html) == SelectSeq(html, LAMBDA c : c \notin Tags)

\* replace(/\s+/g, ' '): every maximal run of whitespace becomes one space
RECURSIVE collapseWhitespace(_)
collapseWhitespace(s) ==
    IF s = <<>> THEN <<>>
    ELSE IF Head(s) \in Whitespace
         THEN IF Len(s) > 1 /\ s[2] \in Whitespace
              THEN collapseWhitespace(Tail(s))
              ELSE <<" ">> \o collapseWhitespace(Tail(s))
         ELSE <<Head(s)>> \o collapseWhitespace(Tail(s))

RECURSIVE trimStart(_)
trimStart(s) ==
    IF s # <<>> /\ Head(s) \in Whitespace THEN trimStart(Tail(s)) ELSE s

RECURSIVE trimEnd(_)
trimEnd(s) ==
    IF s # <<>> /\ s[Len(s)] \in Whitespace THEN trimEnd(SubSeq(s, 1, Len(s) - 1)) ELSE s

trim(s) == trimEnd(trimStart(s))

(***************************************************************************)
(* filter/upliftScore.ts                                                   *)
(***************************************************************************)
normalizeText(html) == trim(collapseWhitespace(toLowerCase(sanitizeHtml(html))))

\* string | null
Null == [isNull |-> TRUE, value |-> <<>>]
Str(s) == [isNull |-> FALSE, value |-> s]
\* JavaScript truthiness of a string | null: null and "" are falsy
Truthy(v) == ~v.isNull /\ v.value # <<>>

RECURSIVE containsHardExclude(_, _)
containsHardExclude(text, excludes) ==
    IF excludes = <<>> THEN Null
    ELSE IF includes(text, toLowerCase(Head(excludes)))
         THEN Str(Head(excludes))
         ELSE containsHardExclude(text, Tail(excludes))

\* calculateBoostScore with an early exit after the first matching entry
RECURSIVE calculateBoostScoreFirstOnly(_, _)
calculateBoostScoreFirstOnly(text, boosts) ==
    IF boosts = <<>> THEN 0
    ELSE IF includes(text, toLowerCase(Head(boosts).word))
         THEN Head(boosts).boost
         ELSE calculateBoostScoreFirstOnly(text, Tail(boosts))

\* calculateBoostScore with `score -= boost`
RECURSIVE calculateBoostScoreSubtracting(_, _)
calculateBoostScoreSubtracting(text, boosts) ==
    IF boosts = <<>> THEN 0
    ELSE calculateBoostScoreSubtracting(text, Tail(boosts))
         - (IF includes(text, toLowerCase(Head(boosts).word)) THEN Head(boosts).boost ELSE 0)

RECURSIVE calculateBoostScore(_, _)
calculateBoostScore(text, boosts) ==
    IF boosts = <<>> THEN 0
    ELSE (IF includes(text, toLowerCase(Head(boosts).word)) THEN Head(boosts).boost ELSE 0)
         + calculateBoostScore(text, Tail(boosts))

combinedText(item) == normalizeText(item.title) \o <<" ">> \o normalizeText(item.description)

\* the per-source boost subtracted instead of added
effectiveThresholdLowered(item, config) == config.minUpliftScore - item.upliftThresholdBoost

effectiveThreshold(item, config) == config.minUpliftScore + item.upliftThresholdBoost

passes(score, threshold) == score >= threshold

\* scoreItem with the time of the call added to the score
scoreItemByTheClock(item, config) ==
    LET text == combinedText(item)
        excludeMatch == containsHardExclude(text, config.hardExcludes)
        score == item.priority * 3 + calculateBoostScore(text, config.positiveBoosts) + now
        threshold == effectiveThreshold(item, config)
    IN  IF Truthy(excludeMatch)
        THEN [upliftScore |-> 0, passesFilter |-> FALSE,
              filterReason |-> [kind |-> "hardExclude", keyword |-> excludeMatch.value]]
             @@ item
        ELSE [upliftScore |-> score, passesFilter |-> passes(score, threshold),
              filterReason |-> IF passes(score, threshold)
                               THEN [kind |-> "undefined"]
                               ELSE [kind |-> "belowThreshold", score |-> score,
                                     threshold |-> threshold]]
             @@ item

\* { ...item, upliftScore, passesFilter, filterReason }: the item's own fields
\* are kept and the three result fields are set
scoreItem(item, config) ==
    LET text == combinedText(item)
        excludeMatch == containsHardExclude(text, config.hardExcludes)
        score == item.priority * 3 + calculateBoostScore(text, config.positiveBoosts)
        threshold == effectiveThreshold(item, config)
    IN  IF Truthy(excludeMatch)
        THEN [upliftScore |-> 0, passesFilter |-> FALSE,
              filterReason |-> [kind |-> "hardExclude", keyword |-> excludeMatch.value]]
             @@ item
        ELSE [upliftScore |-> score, passesFilter |-> passes(score, threshold),
              filterReason |-> IF passes(score, threshold)
                               THEN [kind |-> "undefined"]
                               ELSE [kind |-> "belowThreshold", score |-> score,
                                     threshold |-> threshold]]
             @@ item

filterItems(list, config) == [i \in 1..Len(list) |-> scoreItem(list[i], config)]

(***************************************************************************)
(* selectBestItems (filter/upliftScore.ts).  A FilteredItem carries `ref`, *)
(* the identity of the object in the input array.                          *)
(***************************************************************************)
\* Date | null
NoDate == [isNull |-> TRUE, time |-> 0]
DateAt(t) == [isNull |-> FALSE, time |-> t]

\* a.pubDate?.getTime() || 0
getTimeOrZero(pubDate) ==
    IF pubDate.isNull THEN 0 ELSE IF pubDate.time = 0 THEN 0 ELSE pubDate.time

\* the comparator with the date order reversed (oldest first)
compareItemsOldestFirst(a, b) ==
    IF b.upliftScore # a.upliftScore
    THEN b.upliftScore - a.upliftScore
    ELSE getTimeOrZero(a.pubDate) - getTimeOrZero(b.pubDate)

\* the comparator handed to Array.prototype.sort
compareItems(a, b) ==
    IF b.upliftScore # a.upliftScore
    THEN b.upliftScore - a.upliftScore
    ELSE getTimeOrZero(b.pubDate) - getTimeOrZero(a.pubDate)

\* Array.prototype.sort is stable: x goes after every element that does not
\* compare greater than it
RECURSIVE insertSorted(_, _)
insertSorted(sorted, x) ==
    IF sorted = <<>> THEN <<x>>
    ELSE IF compareItems(Head(sorted), x) > 0
         THEN <<x>> \o sorted
         ELSE <<Head(sorted)>> \o insertSorted(Tail(sorted), x)

RECURSIVE sortItems(_)
sortItems(s) ==
    IF s = <<>> THEN <<>>
    ELSE insertSorted(sortItems(SubSeq(s, 1, Len(s) - 1)), s[Len(s)])

\* sourceCount is a plain object ({}): a key it does not own is looked up on
\* Object.prototype, where "constructor" is a function, not a number
ObjectPrototypeKeys == {"constructor"}
Num(n) == [isNumber |-> TRUE, n |-> n]
NotANumber == [isNumber |-> FALSE, n |-> 0]

\* sourceCount[name] || 0
countOrZero(sourceCount, name) ==
    IF name \in DOMAIN sourceCount THEN sourceCount[name]
    ELSE IF name \in ObjectPrototypeKeys THEN NotANumber
    ELSE Num(0)

\* currentCount >= maxPerSource (false when currentCount converts to NaN)
capReached(currentCount, maxPerSource) ==
    currentCount.isNumber /\ currentCount.n >= maxPerSource

\* currentCount + 1 (a string when currentCount is not a number)
plusOne(currentCount) ==
    IF currentCount.isNumber THEN Num(currentCount.n + 1) ELSE NotANumber

\* the break test with > for >=
enoughSelectedOffByOne(selected, count) == Len(selected) > count

enoughSelected(selected, count) == Len(selected) >= count

RECURSIVE selectWalk(_, _, _, _, _)
selectWalk(passing, selected, sourceCount, count, maxPerSource) ==
    IF passing = <<>> THEN selected
    ELSE IF enoughSelected(selected, count) THEN selected
    ELSE LET item == Head(passing)
             currentCount == countOrZero(sourceCount, item.sourceName)
         IN  IF capReached(currentCount, maxPerSource)
             THEN selectWalk(Tail(passing), selected, sourceCount, count, maxPerSource)
             ELSE selectWalk(Tail(passing), Append(selected, item),
                             (item.sourceName :> plusOne(currentCount)) @@ sourceCount,
                             count, maxPerSource)

selectBestItems(list, count, maxPerSource) ==
    LET passing == SelectSeq(list, LAMBDA it : it.passesFilter)
    IN  selectWalk(sortItems(passing), <<>>, <<>>, count, maxPerSource)

(***************************************************************************)
(* Slot clock (utils: determineSlot, timeToMinutes) and the two date-fns-tz *)
(* calls it makes.  A Date is an instant in minutes; a time zone is its    *)
(* offset from UTC in minutes; `zone` is the zone of the process.         *)
(***************************************************************************)
MinutesPerDay == 24 * 60

DigitChars == <<"0", "1", "2", "3", "4", "5", "6", "7", "8", "9">>
DigitValue(c) == (CHOOSE k \in DOMAIN DigitChars : DigitChars[k] = c) - 1

\* Number("09") = 9
RECURSIVE Number(_)
Number(str) ==
    IF str = <<>> THEN 0
    ELSE Number(SubSeq(str, 1, Len(str) - 1)) * 10 + DigitValue(str[Len(str)])

\* time.split(':')
RECURSIVE split(_)
split(str) ==
    IF \A i \in DOMAIN str : str[i] # ":" THEN <<str>>
    ELSE LET k == CHOOSE i \in DOMAIN str : str[i] = ":" /\ \A j \in 1..(i - 1) : str[j] # ":"
         IN  <<SubSeq(str, 1, k - 1)>> \o split(SubSeq(str, k + 1, Len(str)))

timeToMinutes(time) ==
    LET parts == split(time) IN Number(parts[1]) * 60 + Number(parts[2])

ZoneOffset(zone) ==
    CASE zone = "UTC" -> 0
      [] zone = "America/New_York" -> -300

\* the wall-clock minute of the day of an instant in a zone
WallClock(instant, zone) == (instant + ZoneOffset(zone)) % MinutesPerDay

\* format(date, 'HH:mm'): zero-padded hours and minutes
formatHHmm(minuteOfDay) ==
    LET h == minuteOfDay \div 60
        m == minuteOfDay % 60
    IN  <<DigitChars[(h \div 10) + 1], DigitChars[(h % 10) + 1], ":",
          DigitChars[(m \div 10) + 1], DigitChars[(m % 10) + 1]>>

\* date-fns-tz utcToZonedTime: the Date whose fields, read in the system
\* zone, show the wall-clock time of `date` in `timeZone`
utcToZonedTime(date, timeZone, zone) ==
    date + ZoneOffset(timeZone) - ZoneOffset(zone)

\* date-fns-tz formatInTimeZone: the wall-clock time of the instant `date`
\* in `timeZone`
formatInTimeZone(date, timeZone) == formatHHmm(WallClock(date, timeZone))

currentMinutes(instant, zone, config) ==
    LET zonedNow == utcToZonedTime(instant, config.timezone, zone)
        currentTime == formatInTimeZone(zonedNow, config.timezone)
    IN  timeToMinutes(currentTime)

withinLatenessWindow(diff, config) ==
    diff >= 0 /\ diff <= config.latenessThresholdMinutes

\* Object.entries(config.slots) walks the slots in configuration order
RECURSIVE firstSlotInWindow(_, _, _)
firstSlotInWindow(entries, current, config) ==
    IF entries = <<>> THEN NoSlot
    ELSE IF withinLatenessWindow(current - timeToMinutes(Head(entries).time), config)
         THEN SlotOf(Head(entries).name)
         ELSE firstSlotInWindow(Tail(entries), current, config)

determineSlot(instant, zone, config) ==
    firstSlotInWindow(config.slots, currentMinutes(instant, zone, config), config)

(***************************************************************************)
(* Dedup/audit store (state/index.ts).                                     *)
(***************************************************************************)
\* a state file that cannot be read back: `content` is what it held before
\* the damage, `unparsable` what damaged it
DamagedFile(content) ==
    [exists |-> TRUE, content |-> content, unparsable |-> "truncated"]
PartialFile(content) ==
    [exists |-> TRUE, content |-> content, unparsable |-> "write under way"]

\* load fails fast on a file it cannot read or parse
loadStateThrows(file) == file.exists /\ "unparsable" \in DOMAIN file

loadState(file) == IF file.exists THEN file.content ELSE EmptyState

\* what getRecentPublished / getRecentAuditLog hand to the dashboard
getRecentPublished(st) == st.published
getRecentAuditLog(st) == st.auditLog

isPublished(st, link) == link \in st.publishedUrls

\* a link already present is rejected: the store keeps one record per link
\* addPublished without the test for a link already present
addPublishedUnchecked(st, record) ==
    [st EXCEPT !.publishedUrls = @ \cup {record.url},
               !.published = Append(@, record)]

addPublished(st, record) ==
    IF record.url \in st.publishedUrls THEN st
    ELSE [st EXCEPT !.publishedUrls = @ \cup {record.url},
                    !.published = Append(@, record)]

addAuditLog(st, entry) == [st EXCEPT !.auditLog = Append(@, entry)]

saveState(st) == FileWith(st)

(***************************************************************************)
(* Feed ingestion (feeds/index.ts).                                        *)
(***************************************************************************)
\* number | undefined
Undefined == [defined |-> FALSE, n |-> 0]
Defined(n) == [defined |-> TRUE, n |-> n]
\* v || 0
orZero(v) == IF v.defined /\ v.n # 0 THEN v.n ELSE 0

\* what fetchFeed + parseFeed gave for one source: the parsed items, or an
\* exception
FetchFailed == [ok |-> FALSE, items |-> <<>>]
Parsed(list) == [ok |-> TRUE, items |-> list]

fetchSource(source, outcome) ==
    IF outcome.ok
    THEN [i \in 1..Len(outcome.items) |->
             [priority |-> source.priority,
              upliftThresholdBoost |-> orZero(source.upliftThresholdBoost)]
             @@ outcome.items[i]]
    ELSE <<>>

RECURSIVE flat(_)
flat(lists) == IF lists = <<>> THEN <<>> ELSE Head(lists) \o flat(Tail(lists))

\* the batches are awaited one after the other and their results pushed in
\* feed order
fetchAllFeeds(feeds, outcomes) ==
    flat([i \in 1..Len(feeds) |-> fetchSource(feeds[i], outcomes[i])])

(***************************************************************************)
(* Post content (summary/feedOnly.ts): the slug.                           *)
(***************************************************************************)
SlugTitleMax == 50

RECURSIVE collapseDashes(_)
collapseDashes(str) ==
    IF str = <<>> THEN <<>>
    ELSE IF Head(str) = "-" /\ Len(str) > 1 /\ str[2] = "-"
         THEN collapseDashes(Tail(str))
         ELSE <<Head(str)>> \o collapseDashes(Tail(str))

RECURSIVE stripDashes(_)
stripDashes(str) ==
    IF str # <<>> /\ Head(str) = "-" THEN stripDashes(Tail(str))
    ELSE IF str # <<>> /\ str[Len(str)] = "-" THEN stripDashes(SubSeq(str, 1, Len(str) - 1))
    ELSE str

SlugChars == {"a", "b"}

\* a slug on a fixed day: happy-news-<today>-<slot>-<cleanTitle>
generateSlug(title, slotName) ==
    LET lower == toLowerCase(title)
        dashed == [i \in 1..Len(lower) |-> IF lower[i] \in SlugChars THEN lower[i] ELSE "-"]
        clean == stripDashes(collapseDashes(dashed))
    IN  [slot |-> slotName,
         cleanTitle |-> SubSeq(clean, 1, IF Len(clean) < SlugTitleMax THEN Len(clean)
                                         ELSE SlugTitleMax)]

\* generateContent(...).slug
contentSlug(item, slotName) == generateSlug(trim(sanitizeHtml(item.title)), slotName)

(***************************************************************************)
(* The publisher (publisher/index.ts): configuration and feeds of the      *)
(* explored deployment.                                                    *)
(***************************************************************************)
MaxRuns == 2

SelectCount == 10

Config ==
    [schedule |->
        [timezone |-> "America/New_York",
         slots |-> <<[name |-> "morning", time |-> <<"0", "9", ":", "0", "0">>],
                     [name |-> "afternoon", time |-> <<"1", "3", ":", "0", "0">>],
                     [name |-> "evening", time |-> <<"1", "8", ":", "0", "0">>]>>,
         latenessThresholdMinutes |-> 30],
     feeds |-> <<[name |-> "GNN", priority |-> 10, upliftThresholdBoost |-> Undefined],
                 [name |-> "BBC", priority |-> 2, upliftThresholdBoost |-> Defined(1)]>>,
     filter |-> [minUpliftScore |-> 20,
                 maxPerSource |-> 1,
                 hardExcludes |-> <<<<"b">>>>,
                 positiveBoosts |-> <<[word |-> <<"a">>, boost |-> 15]>>]]

FeedItem(link, title, pubDate, sourceName) ==
    [link |-> link, title |-> title, description |-> <<>>, pubDate |-> pubDate,
     sourceName |-> sourceName]

\* what the two feeds may carry
FeedContents ==
    <<{<<FeedItem("L1", <<"a">>, DateAt(3), "GNN"),
         FeedItem("L2", <<"a", "a">>, DateAt(2), "GNN")>>,
       <<FeedItem("L2", <<"a", "a">>, DateAt(2), "GNN"),
         FeedItem("L4", <<"<i>", "A">>, DateAt(3), "GNN")>>},
      {<<FeedItem("L1", <<"a", " ", "a">>, DateAt(1), "BBC"),
         FeedItem("L3", <<"a", "B">>, DateAt(1), "BBC")>>,
       <<FeedItem("L3", <<"a", "B">>, DateAt(1), "BBC"),
         FeedItem("L5", <<"a", " ", "a">>, NoDate, "BBC")>>}>>

FeedOutcomes ==
    {o \in [1..Len(Config.feeds) -> {FetchFailed} \cup {Parsed(c) : c \in UNION Range(FeedContents)}] :
        \A i \in DOMAIN o : o[i].ok => o[i].items \in FeedContents[i]}

\* instants (UTC) at which a run may start: 09:00, 09:10, 10:00 and 13:00 in
\* New York
RunInstants == {14 * 60, 14 * 60 + 10, 15 * 60, 18 * 60}

\* process.argv: no slot name, or "morning" ("afternoon" and "evening" are
\* handled alike)
CliSlots == {NoSlot, SlotOf("morning")}

(***************************************************************************)
(* publish(slot?)                                                          *)
(***************************************************************************)
EndRun ==
    /\ pc' = "idle"
    /\ slot' = NoSlot
    /\ state' = EmptyState
    /\ loadedUrls' = {}
    /\ items' = <<>>
    /\ unpublished' = <<>>
    /\ candidates' = <<>>
    /\ cursor' = 0
    /\ attempts' = <<>>
    /\ storeOps' = <<>>

\* items.filter(item => !isPublished(state, item.link)), with the test dropped
dedupNone(list, st) == list

\* items.filter(item => !isPublished(state, item.link))
dedup(list, st) == SelectSeq(list, LAMBDA it : ~isPublished(st, it.link))

\* the same start with the early return of line 153 lost: without a detected
\* slot the run goes on under the first configured slot
StartRunUngated(instant, forceSlot) ==
    /\ pc = "idle"
    /\ runs < MaxRuns
    /\ instant >= now
    /\ now' = instant
    /\ runs' = runs + 1
    /\ argv' = forceSlot
    /\ LET detected == IF forceSlot.isNull
                        THEN determineSlot(instant, systemZone, Config.schedule)
                        ELSE forceSlot
       IN  /\ pc' = "loadState"
           /\ slot' = IF detected.isNull THEN SlotOf(Config.schedule.slots[1].name)
                      ELSE detected
    /\ UNCHANGED <<pureVars, systemZone, stateFile, wpSlugs, posted, dashboard, state, loadedUrls,
                   items, unpublished, candidates, cursor, attempts, storeOps>>

\* the process starts; the slot is the CLI argument or the one determineSlot
\* detects, and without a slot the run ends at once
StartRun(instant, forceSlot) ==
    /\ pc = "idle"
    /\ runs < MaxRuns
    /\ instant >= now
    /\ now' = instant
    /\ runs' = runs + 1
    /\ argv' = forceSlot
    /\ LET detected == IF forceSlot.isNull
                        THEN determineSlot(instant, systemZone, Config.schedule)
                        ELSE forceSlot
       IN  IF detected.isNull
           THEN EndRun
           ELSE /\ pc' = "loadState"
                /\ slot' = detected
                /\ UNCHANGED <<state, loadedUrls, items, unpublished, candidates, cursor,
                               attempts, storeOps>>
    /\ UNCHANGED <<pureVars, systemZone, stateFile, wpSlugs, posted, dashboard>>

\* the file cannot be read and the run goes on with the empty state
LoadStateResets ==
    /\ pc = "loadState"
    /\ loadStateThrows(stateFile)
    /\ state' = EmptyState
    /\ loadedUrls' = {}
    /\ storeOps' = Append(storeOps, "loadState")
    /\ pc' = "fetchAllFeeds"
    /\ UNCHANGED <<pureVars, envVars, slot, items, unpublished, candidates, cursor, attempts>>

\* loadState rejects: publish() rejects, the .catch of line 340 logs the fatal
\* error and the process exits with status 1
LoadStateThrows ==
    /\ pc = "loadState"
    /\ loadStateThrows(stateFile)
    /\ EndRun
    /\ UNCHANGED <<pureVars, envVars>>

LoadState ==
    /\ pc = "loadState"
    /\ ~loadStateThrows(stateFile)
    /\ state' = loadState(stateFile)
    /\ loadedUrls' = loadState(stateFile).publishedUrls
    /\ storeOps' = Append(storeOps, "loadState")
    /\ pc' = "fetchAllFeeds"
    /\ UNCHANGED <<pureVars, envVars, slot, items, unpublished, candidates, cursor, attempts>>

\* the same step with the store consulted only after scoring: every fetched
\* item is scored and the published ones are dropped from the scored list
FetchAndSelectScoreFirst(outcomes) ==
    /\ pc = "fetchAllFeeds"
    /\ LET fetched == fetchAllFeeds(Config.feeds, outcomes)
           filtered == filterItems(fetched, Config.filter)
           fresh == dedup(filtered, state)
           best == selectBestItems(fresh, SelectCount, Config.filter.maxPerSource)
       IN  /\ items' = fetched
           /\ unpublished' = fetched
           /\ candidates' = best
           /\ IF Len(best) = 0
              THEN /\ state' = addAuditLog(state,
                                   [slot |-> slot.name, action |-> "skip",
                                    reason |-> "No suitable articles found"])
                   /\ storeOps' = Append(storeOps, "addAuditLog")
                   /\ pc' = "saveState"
              ELSE /\ state' = state
                   /\ storeOps' = storeOps
                   /\ pc' = "ensureCategory"
    /\ UNCHANGED <<pureVars, envVars, slot, loadedUrls, cursor, attempts>>

\* fetch, dedup, score, select; an empty shortlist is logged as a skip
FetchAndSelect(outcomes) ==
    /\ pc = "fetchAllFeeds"
    /\ LET fetched == fetchAllFeeds(Config.feeds, outcomes)
           fresh == dedup(fetched, state)
           filtered == filterItems(fresh, Config.filter)
           best == selectBestItems(filtered, SelectCount, Config.filter.maxPerSource)
       IN  /\ items' = fetched
           /\ unpublished' = fresh
           /\ candidates' = best
           /\ IF Len(best) = 0
              THEN /\ state' = addAuditLog(state,
                                   [slot |-> slot.name, action |-> "skip",
                                    reason |-> "No suitable articles found"])
                   /\ storeOps' = Append(storeOps, "addAuditLog")
                   /\ pc' = "saveState"
              ELSE /\ state' = state
                   /\ storeOps' = storeOps
                   /\ pc' = "ensureCategory"
    /\ UNCHANGED <<pureVars, envVars, slot, loadedUrls, cursor, attempts>>

EnsureCategory ==
    /\ pc = "ensureCategory"
    /\ pc' = "postExists"
    /\ cursor' = 1
    /\ UNCHANGED <<pureVars, envVars, slot, state, loadedUrls, items, unpublished, candidates, attempts,
                   storeOps>>

\* the WordPress request throws outside any try block: publish() rejects and
\* the process exits with status 1, nothing saved
EnsureCategoryThrows ==
    /\ pc = "ensureCategory"
    /\ EndRun
    /\ UNCHANGED <<pureVars, envVars>>

\* one pass of the loop body over candidates[index], and how it ended: the
\* slug was taken ("conflict"), publishPost rejected ("error") or resolved
\* ("published")
Attempt(index, outcome) ==
    [index |-> index, link |-> candidates[index].link, outcome |-> outcome]

\* the for-of loop moves to the next candidate; after the last one the
\* "All candidates failed" skip is logged and the state saved
NextCandidate(st, ops) ==
    IF cursor < Len(candidates)
    THEN /\ cursor' = cursor + 1
         /\ state' = st
         /\ storeOps' = ops
         /\ pc' = "postExists"
    ELSE /\ cursor' = cursor
         /\ state' = addAuditLog(st, [slot |-> slot.name, action |-> "skip",
                                       reason |-> "All candidates failed"])
         /\ storeOps' = Append(ops, "addAuditLog")
         /\ pc' = "saveState"

\* postExists is true and the candidate is published all the same
SlugExistsIgnored ==
    /\ pc = "postExists"
    /\ contentSlug(candidates[cursor], slot.name) \in wpSlugs
    /\ pc' = "publishPost"
    /\ UNCHANGED <<pureVars, envVars, slot, state, loadedUrls, items, unpublished, candidates, cursor,
                   attempts, storeOps>>

\* wp.postExists(content.slug) is true: continue
SlugExists ==
    /\ pc = "postExists"
    /\ contentSlug(candidates[cursor], slot.name) \in wpSlugs
    /\ attempts' = Append(attempts, Attempt(cursor, "conflict"))
    /\ NextCandidate(state, storeOps)
    /\ UNCHANGED <<pureVars, envVars, slot, loadedUrls, items, unpublished, candidates>>

SlugFree ==
    /\ pc = "postExists"
    /\ contentSlug(candidates[cursor], slot.name) \notin wpSlugs
    /\ pc' = "publishPost"
    /\ UNCHANGED <<pureVars, envVars, slot, state, loadedUrls, items, unpublished, candidates, cursor,
                   attempts, storeOps>>

PostExistsThrows ==
    /\ pc = "postExists"
    /\ EndRun
    /\ UNCHANGED <<pureVars, envVars>>

\* publishPost resolves and the item is recorded as published, but the
\* addAuditLog call of lines 274-281 is lost
PublishSucceedsUnlogged ==
    /\ pc = "publishPost"
    /\ LET item == candidates[cursor]
       IN  /\ wpSlugs' = wpSlugs \cup {contentSlug(item, slot.name)}
           /\ posted' = Append(posted, [link |-> item.link, slot |-> slot.name, run |-> runs])
           /\ state' = addPublished(state, [url |-> item.link, title |-> item.title,
                                            slot |-> slot.name])
    /\ storeOps' = Append(storeOps, "addPublished")
    /\ attempts' = Append(attempts, Attempt(cursor, "published"))
    /\ pc' = "saveState"
    /\ UNCHANGED <<pureVars, now, systemZone, stateFile, runs, argv, dashboard, slot, loadedUrls,
                   items, unpublished, candidates, cursor>>

\* publishPost resolves but the `return` of line 305 is lost: the loop goes on
\* to the next candidate
PublishSucceedsAndContinues ==
    /\ pc = "publishPost"
    /\ LET item == candidates[cursor]
       IN  /\ wpSlugs' = wpSlugs \cup {contentSlug(item, slot.name)}
           /\ posted' = Append(posted, [link |-> item.link, slot |-> slot.name, run |-> runs])
           /\ NextCandidate(addAuditLog(
                   addPublished(state, [url |-> item.link, title |-> item.title,
                                        slot |-> slot.name]),
                   [slot |-> slot.name, action |-> "publish",
                    itemTitle |-> item.title, itemUrl |-> item.link]),
                   storeOps \o <<"addPublished", "addAuditLog">>)
    /\ attempts' = Append(attempts, Attempt(cursor, "published"))
    /\ UNCHANGED <<pureVars, now, systemZone, stateFile, runs, argv, dashboard, slot, loadedUrls,
                   items, unpublished, candidates>>

\* publishPost resolves and the loop is left with `break` instead of
\* `return`: the code after the loop logs its skip before the state is saved
PublishSucceedsThenBreaks ==
    /\ pc = "publishPost"
    /\ LET item == candidates[cursor]
       IN  /\ wpSlugs' = wpSlugs \cup {contentSlug(item, slot.name)}
           /\ posted' = Append(posted, [link |-> item.link, slot |-> slot.name, run |-> runs])
           /\ state' = addAuditLog(
                           addAuditLog(
                               addPublished(state, [url |-> item.link, title |-> item.title,
                                                    slot |-> slot.name]),
                               [slot |-> slot.name, action |-> "publish",
                                itemTitle |-> item.title, itemUrl |-> item.link]),
                           [slot |-> slot.name, action |-> "skip",
                            reason |-> "All candidates failed"])
    /\ storeOps' = storeOps \o <<"addPublished", "addAuditLog", "addAuditLog">>
    /\ attempts' = Append(attempts, Attempt(cursor, "published"))
    /\ pc' = "saveState"
    /\ UNCHANGED <<pureVars, now, systemZone, stateFile, runs, argv, dashboard, slot, loadedUrls,
                   items, unpublished, candidates, cursor>>

\* wp.publishPost resolves: the post exists, the item is recorded and logged
PublishSucceeds ==
    /\ pc = "publishPost"
    /\ LET item == candidates[cursor]
       IN  /\ wpSlugs' = wpSlugs \cup {contentSlug(item, slot.name)}
           /\ posted' = Append(posted, [link |-> item.link, slot |-> slot.name, run |-> runs])
           /\ state' = addAuditLog(
                           addPublished(state, [url |-> item.link, title |-> item.title,
                                                slot |-> slot.name]),
                           [slot |-> slot.name, action |-> "publish",
                            itemTitle |-> item.title, itemUrl |-> item.link])
    /\ storeOps' = storeOps \o <<"addPublished", "addAuditLog">>
    /\ attempts' = Append(attempts, Attempt(cursor, "published"))
    /\ pc' = "saveState"
    /\ UNCHANGED <<pureVars, now, systemZone, stateFile, runs, argv, dashboard, slot, loadedUrls,
                   items, unpublished, candidates, cursor>>

\* publishPost rejects and the catch block records nothing
PublishFailsUnlogged ==
    /\ pc = "publishPost"
    /\ NextCandidate(state, storeOps)
    /\ attempts' = Append(attempts, Attempt(cursor, "error"))
    /\ UNCHANGED <<pureVars, envVars, slot, loadedUrls, items, unpublished, candidates>>

\* publishPost rejects and the catch block records the item as published
PublishFailsMarksPublished ==
    /\ pc = "publishPost"
    /\ LET item == candidates[cursor]
       IN  NextCandidate(addAuditLog(
                             addPublished(state, [url |-> item.link, title |-> item.title,
                                                  slot |-> slot.name]),
                             [slot |-> slot.name, action |-> "error",
                              itemTitle |-> item.title, itemUrl |-> item.link,
                              error |-> "WordPress API error"]),
                         storeOps \o <<"addPublished", "addAuditLog">>)
    /\ attempts' = Append(attempts, Attempt(cursor, "error"))
    /\ UNCHANGED <<pureVars, envVars, slot, loadedUrls, items, unpublished, candidates>>

\* publishPost rejects and the catch block saves the state after logging
PublishFailsSaves ==
    /\ pc = "publishPost"
    /\ LET item == candidates[cursor]
           logged == addAuditLog(state, [slot |-> slot.name, action |-> "error",
                                         itemTitle |-> item.title,
                                         itemUrl |-> item.link,
                                         error |-> "WordPress API error"])
       IN  /\ NextCandidate(logged, storeOps \o <<"addAuditLog", "saveState">>)
           /\ stateFile' = saveState(logged)
    /\ attempts' = Append(attempts, Attempt(cursor, "error"))
    /\ UNCHANGED <<pureVars, now, systemZone, wpSlugs, posted, runs, argv, dashboard, slot,
                   loadedUrls, items, unpublished, candidates>>

\* wp.publishPost rejects: an "error" entry, then the next candidate
PublishFails ==
    /\ pc = "publishPost"
    /\ LET item == candidates[cursor]
       IN  NextCandidate(addAuditLog(state, [slot |-> slot.name, action |-> "error",
                                             itemTitle |-> item.title,
                                             itemUrl |-> item.link,
                                             error |-> "WordPress API error"]),
                         Append(storeOps, "addAuditLog"))
    /\ attempts' = Append(attempts, Attempt(cursor, "error"))
    /\ UNCHANGED <<pureVars, envVars, slot, loadedUrls, items, unpublished, candidates>>

\* the run ends without writing the state file
SaveStateSkipped ==
    /\ pc = "saveState"
    /\ EndRun
    /\ UNCHANGED <<pureVars, envVars>>

\* the state is written over the file in place: the file is first cut short,
\* then filled, and between the two steps it cannot be parsed
SaveStateInPlace ==
    /\ pc = "saveState"
    /\ IF loadStateThrows(stateFile)
       THEN /\ stateFile' = saveState(state)
            /\ EndRun
       ELSE /\ stateFile' = PartialFile(state)
            /\ UNCHANGED runVars
    /\ UNCHANGED <<pureVars, now, systemZone, wpSlugs, posted, runs, argv, dashboard>>

\* await saveState(state, STATE_PATH); return
SaveState ==
    /\ pc = "saveState"
    /\ stateFile' = saveState(state)
    /\ EndRun
    /\ UNCHANGED <<pureVars, now, systemZone, wpSlugs, posted, runs, argv, dashboard>>

Init ==
    /\ args = NoCall
    /\ ret = Pending
    /\ systemZone \in {"UTC", "America/New_York"}
    /\ EnvFresh
    /\ RunIdle

Next ==
    \/ \E instant \in RunInstants, forceSlot \in CliSlots :
        StartRun(instant, forceSlot)
    \/ LoadState
    \/ \E outcomes \in FeedOutcomes : FetchAndSelect(outcomes)
    \/ EnsureCategory
    \/ EnsureCategoryThrows
    \/ SlugExists
    \/ SlugFree
    \/ PostExistsThrows
    \/ PublishSucceeds
    \/ PublishFails
    \/ SaveState

Spec == Init /\ [][Next]_vars

(***************************************************************************)
(* The publisher in operation: between two runs the state file may be      *)
(* damaged on disk, and the admin API (admin/api.ts) answers dashboard     *)
(* requests from the same file at any moment.                              *)
(***************************************************************************)
\* the file on disk is truncated between two runs
CorruptStateFile ==
    /\ pc = "idle"
    /\ stateFile.exists
    /\ ~loadStateThrows(stateFile)
    /\ stateFile' = DamagedFile(stateFile.content)
    /\ UNCHANGED <<pureVars, now, systemZone, wpSlugs, posted, runs, argv, dashboard, runVars>>

DashboardRoutes == {"posts", "audit"}

\* GET /posts, GET /audit: loadState inside try, 500 from the catch block
DashboardRequest(route) ==
    /\ dashboard' =
           IF loadStateThrows(stateFile)
           THEN [status |-> 500, route |-> route, error |-> stateFile.unparsable]
           ELSE [status |-> 200, route |-> route,
                 body |-> IF route = "posts"
                          THEN getRecentPublished(loadState(stateFile))
                          ELSE getRecentAuditLog(loadState(stateFile))]
    /\ UNCHANGED <<pureVars, now, systemZone, stateFile, wpSlugs, posted, runs, argv, runVars>>

NextOps ==
    \/ Next
    \/ LoadStateThrows
    \/ CorruptStateFile
    \/ \E route \in DashboardRoutes : DashboardRequest(route)

SpecOps == Init /\ [][NextOps]_vars

(***************************************************************************)
(* Scoring harness: one call of scoreItem on an item and a configuration   *)
(* drawn from bounded sets.                                                *)
(***************************************************************************)
Texts == SeqsUpTo(TextAlphabet, MaxTextLen)
Descriptions == {<<>>, <<"a">>, <<"<i>", "B">>}
ExcludeWords == {<<>>, <<"b">>, <<"A", " ", "b">>}
BoostEntries == {[word |-> <<"a">>, boost |-> 15], [word |-> <<"B">>, boost |-> 4]}
Priorities == {2, 10}
ThresholdBoosts == {0, 5}
MinUpliftScores == {20}

ScoreInputs ==
    [fn : {"scoreItem"},
     item : [title : Texts, description : Descriptions, priority : Priorities,
             upliftThresholdBoost : ThresholdBoosts],
     config : [minUpliftScore : MinUpliftScores,
               hardExcludes : SeqsUpTo(ExcludeWords, MaxExcludes),
               positiveBoosts : SeqsUpTo(BoostEntries, MaxBoosts)]]

InitScore == HarnessInit(ScoreInputs)

CallScoreItem ==
    /\ args.fn = "scoreItem"
    /\ ~ret.done
    /\ ret' = Returned(scoreItem(args.item, args.config))
    /\ UNCHANGED <<args, pubVars>>

NextScore == CallScoreItem

SpecScore == InitScore /\ [][NextScore]_vars

(***************************************************************************)
(* Scoring properties.                                                     *)
(***************************************************************************)
KeywordMatches(item, keyword) == includes(combinedText(item), toLowerCase(keyword))

AnyExcludeMatches(item, config) ==
    \E i \in DOMAIN config.hardExcludes : KeywordMatches(item, config.hardExcludes[i])

RECURSIVE SumOver(_, _)
SumOver(S, f) ==
    IF S = {} THEN 0
    ELSE LET x == CHOOSE y \in S : TRUE IN f[x] + SumOver(S \ {x}, f)

MatchingBoostEntries(item, config) ==
    {i \in DOMAIN config.positiveBoosts : KeywordMatches(item, config.positiveBoosts[i].word)}

\* C4: an item whose normalized text contains a configured (non-empty)
\* hard-exclude keyword scores exactly 0, fails, and the reason names a
\* matching keyword, whatever else the hardExcludes list holds.
C4_HardExcludeAlwaysFails ==
    ret.done =>
        \A i \in DOMAIN args.config.hardExcludes :
            (args.config.hardExcludes[i] # <<>>
             /\ KeywordMatches(args.item, args.config.hardExcludes[i]))
            => /\ ret.value.upliftScore = 0
               /\ ret.value.passesFilter = FALSE
               /\ ret.value.filterReason.kind = "hardExclude"
               /\ KeywordMatches(args.item, ret.value.filterReason.keyword)

\* C5: when no hard-exclude keyword matches, the score is priority * 3 plus
\* the boost of every configured entry whose word occurs in the text, each
\* entry counted once and independently of the others.
C5_ScoreIsBasePlusBoosts ==
    (ret.done /\ ~AnyExcludeMatches(args.item, args.config)) =>
        ret.value.upliftScore =
            args.item.priority * 3
            + SumOver(MatchingBoostEntries(args.item, args.config),
                      [i \in DOMAIN args.config.positiveBoosts |->
                          args.config.positiveBoosts[i].boost])

\* two entries match (the same word configured twice counts twice) while a
\* non-matching exclude list is configured
C5_Witness ==
    /\ ret.done
    /\ ~AnyExcludeMatches(args.item, args.config)
    /\ args.config.hardExcludes # <<>>
    /\ Cardinality(MatchingBoostEntries(args.item, args.config)) = 2
    /\ args.config.positiveBoosts[1] = args.config.positiveBoosts[2]
    /\ ret.value.upliftScore = args.item.priority * 3 + 30

\* C6: when no hard exclude fires, the item passes iff its score reaches
\* minUpliftScore + upliftThresholdBoost; raising the per-source boost never
\* turns a fail into a pass.
C6_PassIffAtLeastEffectiveThreshold ==
    (ret.done /\ ret.value.filterReason.kind # "hardExclude") =>
        /\ ret.value.passesFilter
            <=> (ret.value.upliftScore
                   >= args.config.minUpliftScore + args.item.upliftThresholdBoost)
        /\ \A b \in ThresholdBoosts :
              b >= args.item.upliftThresholdBoost =>
                (scoreItem([args.item EXCEPT !.upliftThresholdBoost = b],
                           args.config).passesFilter
                 => ret.value.passesFilter)

\* an item that passes with boost 0 and fails once its source carries boost 5
C6_Witness ==
    /\ ret.done
    /\ ret.value.filterReason.kind # "hardExclude"
    /\ args.item.upliftThresholdBoost = 0
    /\ ret.value.passesFilter
    /\ ~scoreItem([args.item EXCEPT !.upliftThresholdBoost = 5], args.config).passesFilter

(***************************************************************************)
(* Selection harness: one call of selectBestItems.                         *)
(***************************************************************************)
MaxItems == 3
MaxCount == 2
MaxCap == 2

SelItem(src, score, pass, date) ==
    [sourceName |-> src, upliftScore |-> score, passesFilter |-> pass, pubDate |-> date]

SelItems ==
    { SelItem("GNN", 30, TRUE, DateAt(1)),
      SelItem("GNN", 30, TRUE, NoDate),
      SelItem("GNN", 30, TRUE, DateAt(-1)),
      SelItem("GNN", 20, TRUE, DateAt(1)),
      SelItem("BBC", 30, TRUE, DateAt(0)),
      SelItem("BBC", 20, TRUE, NoDate),
      SelItem("constructor", 30, TRUE, DateAt(1)),
      SelItem("constructor", 20, TRUE, NoDate),
      SelItem("GNN", 0, FALSE, DateAt(1)),
      SelItem("BBC", 40, FALSE, DateAt(1)) }

WithRefs(list) == [i \in 1..Len(list) |-> [ref |-> i] @@ list[i]]

SelectInputs ==
    [fn : {"selectBestItems"},
     items : {WithRefs(s) : s \in SeqsUpTo(SelItems, MaxItems)},
     count : 0..MaxCount,
     maxPerSource : 0..MaxCap]

InitSelect == HarnessInit(SelectInputs)

CallSelectBestItems ==
    /\ args.fn = "selectBestItems"
    /\ ~ret.done
    /\ ret' = Returned(selectBestItems(args.items, args.count, args.maxPerSource))
    /\ UNCHANGED <<args, pubVars>>

NextSelect == CallSelectBestItems

SpecSelect == InitSelect /\ [][NextSelect]_vars

(***************************************************************************)
(* Selection properties.                                                   *)
(***************************************************************************)
CountOfSource(out, src) == Cardinality({i \in DOMAIN out : out[i].sourceName = src})

SourcesOf(list) == {list[i].sourceName : i \in DOMAIN list}

\* C7: the output never holds more than maxPerSource items of one source.
C7_PerSourceCap ==
    ret.done =>
        \A src \in SourcesOf(args.items) :
            CountOfSource(ret.value, src) <= args.maxPerSource

\* a is older than b, a missing date being older than every present date
OlderMissingOldest(a, b) ==
    \/ a.pubDate.isNull /\ ~b.pubDate.isNull
    \/ ~a.pubDate.isNull /\ ~b.pubDate.isNull /\ a.pubDate.time < b.pubDate.time

\* C8 as claimed: score descending, then date descending with a missing date
\* ordered as the oldest.
C8_SortedMissingAsOldest ==
    ret.done =>
        \A i \in 1..(Len(ret.value) - 1) :
            LET a == ret.value[i]
                b == ret.value[i + 1]
            IN  \/ a.upliftScore > b.upliftScore
                \/ a.upliftScore = b.upliftScore /\ ~OlderMissingOldest(a, b)

EpochTime(it) == IF it.pubDate.isNull THEN 0 ELSE it.pubDate.time

\* C8 amended: score descending, then timestamp descending where a missing
\* pubDate counts as timestamp 0 (the Unix epoch): it ties with a date at the
\* epoch and sorts before every date earlier than the epoch.
C8_SortedMissingAsEpoch ==
    ret.done =>
        \A i \in 1..(Len(ret.value) - 1) :
            LET a == ret.value[i]
                b == ret.value[i + 1]
            IN  \/ a.upliftScore > b.upliftScore
                \/ a.upliftScore = b.upliftScore /\ EpochTime(a) >= EpochTime(b)

\* equal scores: the sort moved an undated item in front of a pre-epoch one
C8_Witness ==
    /\ ret.done
    /\ Len(ret.value) = 2
    /\ ret.value[1].upliftScore = ret.value[2].upliftScore
    /\ ret.value[1].pubDate = NoDate
    /\ ret.value[2].pubDate = DateAt(-1)
    /\ ret.value[1].ref > ret.value[2].ref

\* C9: at most count items, each a passing element of the input, no input
\* element twice; too few candidates give a shorter or empty list.
C9_SubsetOfPassingAtMostCount ==
    ret.done =>
        /\ Len(ret.value) <= args.count
        /\ \A i \in DOMAIN ret.value :
              /\ ret.value[i].ref \in DOMAIN args.items
              /\ ret.value[i] = args.items[ret.value[i].ref]
              /\ ret.value[i].passesFilter
        /\ \A i, j \in DOMAIN ret.value : i # j => ret.value[i].ref # ret.value[j].ref

\* count = 2 asked, two passing items of one capped source and a failing one
\* given: a one-item list is returned
C9_Witness ==
    /\ ret.done
    /\ args.count = 2
    /\ args.maxPerSource = 1
    /\ Len(args.items) = 3
    /\ \E i \in DOMAIN args.items : ~args.items[i].passesFilter
    /\ Cardinality({i \in DOMAIN args.items : args.items[i].passesFilter}) = 2
    /\ Len(ret.value) = 1

(***************************************************************************)
(* Slot-clock harness: one call of determineSlot at an instant of the day. *)
(***************************************************************************)
HHmm(h1, h2, m1, m2) == <<h1, h2, ":", m1, m2>>

SlotEntry(name, time) == [name |-> name, time |-> time]

\* the README schedule, an overlapping one, and one reaching past midnight
SlotTables ==
    { <<SlotEntry("morning", HHmm("0", "9", "0", "0")),
        SlotEntry("afternoon", HHmm("1", "3", "0", "0")),
        SlotEntry("evening", HHmm("1", "8", "0", "0"))>>,
      <<SlotEntry("morning", HHmm("0", "9", "0", "0")),
        SlotEntry("afternoon", HHmm("0", "9", "2", "0")),
        SlotEntry("evening", HHmm("2", "3", "5", "0"))>> }

TimeZones == {"UTC", "America/New_York"}
Tolerances == {0, 30}

ScheduleConfigs ==
    [timezone : TimeZones, slots : SlotTables, latenessThresholdMinutes : Tolerances]

SlotInputs ==
    [fn : {"determineSlot"},
     instant : 0..(MinutesPerDay - 1),
     zone : TimeZones,
     config : ScheduleConfigs]

InitSlot == HarnessInit(SlotInputs)

CallDetermineSlot ==
    /\ args.fn = "determineSlot"
    /\ ~ret.done
    /\ ret' = Returned(determineSlot(args.instant, args.zone, args.config))
    /\ UNCHANGED <<args, pubVars>>

NextSlot == CallDetermineSlot

SpecSlot == InitSlot /\ [][NextSlot]_vars

(***************************************************************************)
(* Slot-clock properties.                                                  *)
(***************************************************************************)
\* the local wall-clock minute of the day in the configured time zone
LocalMinutes(instant, config) == WallClock(instant, config.timezone)

InWindow(minuteOfDay, entry, config) ==
    /\ 0 <= minuteOfDay - timeToMinutes(entry.time)
    /\ minuteOfDay - timeToMinutes(entry.time) <= config.latenessThresholdMinutes

\* the relation between the result and the minute of the day the function
\* computed
SlotMatchesComputedMinutes ==
    ret.done =>
        LET cur == currentMinutes(args.instant, args.zone, args.config)
        IN  /\ ~ret.value.isNull =>
                  \E i \in DOMAIN args.config.slots :
                      /\ args.config.slots[i].name = ret.value.name
                      /\ InWindow(cur, args.config.slots[i], args.config)
            /\ ret.value.isNull <=>
                  \A i \in DOMAIN args.config.slots :
                      ~InWindow(cur, args.config.slots[i], args.config)

\* C10: a slot is returned only inside its window (both ends inclusive) and
\* none is returned exactly when no window holds the current time; with the
\* morning slot at 09:00 and tolerance 30, local times 09:00 and 09:30 match
\* it and 08:59 and 09:31 do not.
C10_SlotWindowInclusive ==
    /\ SlotMatchesComputedMinutes
    /\ (/\ ret.done
        /\ args.config.slots[1] = SlotEntry("morning", HHmm("0", "9", "0", "0"))
        /\ args.config.latenessThresholdMinutes = 30)
       => LET local == LocalMinutes(args.instant, args.config)
          IN  /\ local \in {9 * 60, 9 * 60 + 30} => ret.value = SlotOf("morning")
              /\ local \in {8 * 60 + 59, 9 * 60 + 31} => ret.value # SlotOf("morning")

\* the configured slots whose window holds a minute of the day
ActiveSlots(minuteOfDay, config) ==
    {i \in DOMAIN config.slots : InWindow(minuteOfDay, config.slots[i], config)}

FirstOf(S) == CHOOSE i \in S : \A j \in S : i <= j

\* the tie-break taken on the minute of the day the function computed
FirstMatchOnComputedMinutes ==
    ret.done =>
        LET active == ActiveSlots(currentMinutes(args.instant, args.zone, args.config),
                                  args.config)
        IN  active # {} => ret.value = SlotOf(args.config.slots[FirstOf(active)].name)

\* C11: when the windows of two or more configured slots hold the current
\* local time, the slot that comes first in configuration order is returned.
C11_FirstMatchWins ==
    ret.done =>
        LET active == ActiveSlots(LocalMinutes(args.instant, args.config), args.config)
        IN  Cardinality(active) >= 2 =>
                ret.value = SlotOf(args.config.slots[FirstOf(active)].name)

\* C12: no wraparound: a slot whose window reaches past 23:59 is matched at
\* local times from its scheduled time to 23:59 and at no local time from
\* 00:00 on.
C12_NoWraparound ==
    ret.done =>
        \A i \in DOMAIN args.config.slots :
            LET entry == args.config.slots[i]
                scheduled == timeToMinutes(entry.time)
                local == LocalMinutes(args.instant, args.config)
            IN  scheduled + args.config.latenessThresholdMinutes >= MinutesPerDay =>
                    /\ (local >= scheduled /\ FirstOf(ActiveSlots(local, args.config)) = i)
                           => ret.value = SlotOf(entry.name)
                    /\ local < scheduled => ret.value # SlotOf(entry.name)

(***************************************************************************)
(* Publisher properties.                                                   *)
(***************************************************************************)
LinksOf(list) == {list[i].link : i \in DOMAIN list}

\* C1: across any sequence of publisher runs no link is published twice.
C1_NeverPublishedTwice ==
    \A i, j \in DOMAIN posted : i # j => posted[i].link # posted[j].link

\* the second run publishes although its feeds carried the link the first
\* run had published
C1_Witness ==
    /\ pc = "saveState"
    /\ Len(posted) = 2
    /\ posted[1].run = 1
    /\ posted[2].run = 2
    /\ posted[1].link \in LinksOf(items)

\* C2: the dedup store is consulted before scoring: every item scored,
\* shortlisted or attempted in a run has a link that was not published in
\* the state the run loaded.
C2_DedupBeforeScoring ==
    pc \in {"ensureCategory", "postExists", "publishPost", "saveState"} =>
        /\ \A i \in DOMAIN unpublished : ~isPublished([publishedUrls |-> loadedUrls],
                                                      unpublished[i].link)
        /\ LinksOf(candidates) \cap loadedUrls = {}
        /\ pc \in {"postExists", "publishPost"} => candidates[cursor].link \notin loadedUrls

\* a publish is attempted in a run whose feeds carried a published link
C2_Witness ==
    /\ pc = "publishPost"
    /\ loadedUrls # {}
    /\ LinksOf(items) \cap loadedUrls # {}
    /\ LinksOf(items) \ loadedUrls # {}

\* C3: on one day at most one item is published for a slot.
C3_OncePerSlotWindow ==
    \A i, j \in DOMAIN posted : i # j => posted[i].slot # posted[j].slot

\* the slot determineSlot detects at the start of the current run
DetectedSlot == determineSlot(now, systemZone, Config.schedule)

\* C13 as claimed: a run goes past its start only with the slot determineSlot
\* returned for the current time.
C13_GatedOnDetectedSlot ==
    pc # "idle" => (~slot.isNull /\ slot = DetectedSlot)

\* C13: a run started without a slot argument goes on only with the slot
\* determineSlot returned, and when none is returned it ends at once with no
\* fetch, no publish attempt, no audit entry and no state write; a run
\* started with a slot argument goes on under that slot without consulting
\* determineSlot.  Every later step of a run belongs to a run that passed
\* this start.
C13_GatedUnlessSlotForced ==
    [][IF runs' # runs
       THEN LET detected == determineSlot(now', systemZone, Config.schedule)
            IN  IF argv'.isNull /\ detected.isNull
                THEN /\ pc' = "idle"
                     /\ stateFile' = stateFile
                     /\ posted' = posted
                     /\ wpSlugs' = wpSlugs
                     /\ state' = EmptyState
                     /\ items' = <<>>
                     /\ attempts' = <<>>
                ELSE /\ pc' = "loadState"
                     /\ slot' = IF argv'.isNull THEN detected ELSE argv'
       ELSE /\ pc # "idle"
            /\ ~slot.isNull
            /\ slot = IF argv.isNull THEN DetectedSlot ELSE argv]_vars

\* after a run that published, a run without slot argument found no active
\* slot and ended: the saved state still holds the first run's single entry
C13_Witness ==
    /\ runs = 2
    /\ pc = "idle"
    /\ argv.isNull
    /\ DetectedSlot.isNull
    /\ Len(posted) = 1
    /\ stateFile.exists
    /\ Len(stateFile.content.auditLog) = 1

Failed(attempt) == attempt.outcome \in {"conflict", "error"}

\* C14: the shortlist is tried strictly in order, one candidate at a time:
\* the k-th attempt of a run is on the k-th candidate, every attempt before
\* the latest one failed (slug conflict or publish error), nothing is tried
\* after a success, and the loop ends only on a success or with the shortlist
\* exhausted.
C14_ShortlistInOrderUntilSuccess ==
    /\ \A k \in DOMAIN attempts :
           /\ attempts[k].index = k
           /\ k <= Len(candidates)
           /\ attempts[k].link = candidates[k].link
           /\ k < Len(attempts) => Failed(attempts[k])
    /\ pc \in {"postExists", "publishPost"} =>
           /\ cursor = Len(attempts) + 1
           /\ \A k \in DOMAIN attempts : Failed(attempts[k])
    /\ (pc = "saveState" /\ candidates # <<>>) =>
           \/ attempts[Len(attempts)].outcome = "published"
           \/ Len(attempts) = Len(candidates) /\ \A k \in DOMAIN attempts : Failed(attempts[k])
    /\ Cardinality({i \in DOMAIN posted : posted[i].run = runs}) <= 1

\* the first candidate failed and the second was then published
C14_Witness ==
    /\ pc = "saveState"
    /\ Len(candidates) = 2
    /\ Len(attempts) = 2
    /\ Failed(attempts[1])
    /\ attempts[2].outcome = "published"

\* the step in which an attempt with the given outcome ends
AttemptEnds(outcome) ==
    /\ Len(attempts') = Len(attempts) + 1
    /\ attempts'[Len(attempts')].outcome = outcome

ErrorEntry(item) ==
    [slot |-> slot.name, action |-> "error", itemTitle |-> item.title, itemUrl |-> item.link,
     error |-> "WordPress API error"]

AllFailedEntry == [slot |-> slot.name, action |-> "skip", reason |-> "All candidates failed"]

\* what the end of the loop adds to the log when the given candidate was the
\* last one
AfterLast(index) == IF index = Len(candidates) THEN <<AllFailedEntry>> ELSE <<>>

\* C15: a failed publish call does not abort the run: exactly one "error"
\* audit entry with the candidate's title, link and the error text is
\* appended, no published record is added, the dedup set, the site and the
\* state file are unchanged, and the loop goes on to the next candidate (or,
\* after the last one, to the end of the loop).
C15_PublishErrorIsSoft ==
    [][AttemptEnds("error") =>
          /\ state'.auditLog = state.auditLog \o <<ErrorEntry(candidates[cursor])>>
                                   \o AfterLast(cursor)
          /\ state'.published = state.published
          /\ state'.publishedUrls = state.publishedUrls
          /\ posted' = posted
          /\ wpSlugs' = wpSlugs
          /\ stateFile' = stateFile
          /\ IF cursor < Len(candidates)
             THEN pc' = "postExists" /\ cursor' = cursor + 1
             ELSE pc' = "saveState"]_vars

\* the publish call for the first candidate failed, its entry is the last of
\* the log, and the loop stands at the second candidate
C15_Witness ==
    /\ pc = "postExists"
    /\ cursor = 2
    /\ Len(attempts) = 1
    /\ attempts[1].outcome = "error"
    /\ state.auditLog # <<>>
    /\ state.auditLog[Len(state.auditLog)] = ErrorEntry(candidates[1])

\* the site holds a post with the slug generated for the candidate at hand
SlugTaken == contentSlug(candidates[cursor], slot.name) \in wpSlugs

\* C16: when the site already holds a post with the candidate's slug, the
\* candidate is not published and not recorded as published, and the run
\* moves on to the next candidate (or, after the last one, to the end of the
\* loop) without aborting.
C16_SlugConflictIsSoft ==
    [][/\ (pc = "postExists" /\ SlugTaken) => pc' # "publishPost"
       /\ AttemptEnds("conflict") =>
              /\ pc = "postExists" /\ SlugTaken
              /\ posted' = posted
              /\ wpSlugs' = wpSlugs
              /\ state'.published = state.published
              /\ state'.publishedUrls = state.publishedUrls
              /\ stateFile' = stateFile
              /\ IF cursor < Len(candidates)
                 THEN pc' = "postExists" /\ cursor' = cursor + 1
                 ELSE pc' = "saveState"]_vars

\* the first candidate's slug was taken and the second candidate is being
\* published
C16_Witness ==
    /\ pc = "publishPost"
    /\ cursor = 2
    /\ attempts = <<[index |-> 1, link |-> candidates[1].link, outcome |-> "conflict"]>>
    /\ contentSlug(candidates[1], slot.name) \in wpSlugs
    /\ candidates[1].link \notin state.publishedUrls

NothingPublished == \A k \in DOMAIN attempts : Failed(attempts[k])

SkipEntry(reason) == [slot |-> slot.name, action |-> "skip", reason |-> reason]

LastOf(log) == log[Len(log)]

\* C17: selection exhaustion is not an error: a run that passed the slot gate
\* and publishes nothing, because its shortlist is empty or because every
\* candidate failed, reaches the end of publish() with a "skip" audit entry
\* carrying the reason as the last entry of its log, and that state is saved
\* as the run ends.
C17_ExhaustionIsSkipAndSave ==
    [][/\ (pc \in {"ensureCategory", "postExists", "publishPost"}) => candidates # <<>>
       /\ (pc # "idle" /\ candidates # <<>> /\ Len(attempts) = Len(candidates)
              /\ NothingPublished) => pc = "saveState"
       /\ (pc = "saveState" /\ NothingPublished) =>
              /\ state.auditLog # <<>>
              /\ LastOf(state.auditLog) =
                     SkipEntry(IF candidates = <<>> THEN "No suitable articles found"
                               ELSE "All candidates failed")
              /\ stateFile' = FileWith(state)
              /\ pc' = "idle"
              /\ posted' = posted]_vars

\* a run whose every candidate failed has ended: the saved log ends with the
\* "All candidates failed" skip and nothing was published
C17_Witness ==
    /\ pc = "idle"
    /\ runs = 1
    /\ posted = <<>>
    /\ stateFile.exists
    /\ Len(stateFile.content.auditLog) >= 2
    /\ LastOf(stateFile.content.auditLog).action = "skip"
    /\ LastOf(stateFile.content.auditLog).reason = "All candidates failed"

\* C18: every failure while one candidate is processed is caught and the run
\* goes on to a saved state: a run never ends from inside the candidate loop.
C18_CandidateFailuresAreCaught ==
    [][(pc \in {"postExists", "publishPost"}) => (pc' # "idle")]_vars

\* the number of audit entries that name a link
EntriesFor(log, link) ==
    Cardinality({i \in DOMAIN log : "itemUrl" \in DOMAIN log[i] /\ log[i].itemUrl = link})

PublishEntry(item) ==
    [slot |-> slot.name, action |-> "publish", itemTitle |-> item.title, itemUrl |-> item.link]

MaxStoreCalls == 4

StoreLinks == {"L1", "L2", "L3"}

PublishedRecords ==
    [url : StoreLinks, title : {<<"a">>}, slot : {"morning", "evening"}]

AuditEntries ==
    [slot : {"morning"}, action : {"skip"}, reason : {"No suitable articles found"}]
    \cup [slot : {"morning"}, action : {"error"}, itemTitle : {<<"a">>}, itemUrl : {"L1"},
          error : {"WordPress API error"}]

InitStore == HarnessInit({[fn |-> "store", n |-> 0]})

CallAddPublished(record) ==
    /\ args.fn \in {"store", "addPublished", "addAuditLog"}
    /\ args.n < MaxStoreCalls
    /\ args' = [fn |-> "addPublished", n |-> args.n + 1, record |-> record]
    /\ state' = addPublished(state, record)
    /\ UNCHANGED <<ret, envVars, pc, slot, loadedUrls, items, unpublished, candidates, cursor,
                   attempts, storeOps>>

CallAddAuditLog(entry) ==
    /\ args.fn \in {"store", "addPublished", "addAuditLog"}
    /\ args.n < MaxStoreCalls
    /\ args' = [fn |-> "addAuditLog", n |-> args.n + 1, entry |-> entry]
    /\ state' = addAuditLog(state, entry)
    /\ UNCHANGED <<ret, envVars, pc, slot, loadedUrls, items, unpublished, candidates, cursor,
                   attempts, storeOps>>

NextStore ==
    \/ \E record \in PublishedRecords : CallAddPublished(record)
    \/ \E entry \in AuditEntries : CallAddAuditLog(entry)

SpecStore == InitStore /\ [][NextStore]_vars

(***************************************************************************)
(* Store properties.                                                       *)
(***************************************************************************)
\* the links of the published records are pairwise different and are the
\* dedup set
PublishedLinksUnique ==
    /\ \A i, j \in DOMAIN state.published :
           i # j => state.published[i].url # state.published[j].url
    /\ state.publishedUrls = {state.published[i].url : i \in DOMAIN state.published}

\* C20: after any sequence of addPublished / addAuditLog calls no two
\* published records share a link; after addPublished with link L
\* isPublished(state, L) is true; the first addPublished for L enlarges the
\* dedup set and the record list by exactly one and a later one for the
\* same L adds nothing; addAuditLog changes neither.
C20_AddPublishedIdempotent ==
    [][/\ PublishedLinksUnique'
       /\ args'.fn = "addPublished" =>
              LET link == args'.record.url
              IN  /\ isPublished(state', link)
                  /\ IF isPublished(state, link)
                     THEN /\ state'.published = state.published
                          /\ state'.publishedUrls = state.publishedUrls
                     ELSE /\ Cardinality(state'.publishedUrls)
                                = Cardinality(state.publishedUrls) + 1
                          /\ Len(state'.published) = Len(state.published) + 1
                          /\ LastOf(state'.published) = args'.record
       /\ args'.fn = "addAuditLog" =>
              /\ state'.published = state.published
              /\ state'.publishedUrls = state.publishedUrls]_vars

\* addPublished was called twice and nothing else: the second call named the
\* link of the first and left a single record
C20_Witness ==
    /\ args.fn = "addPublished"
    /\ args.n = 2
    /\ state.auditLog = <<>>
    /\ Len(state.published) = 1
    /\ state.published[1].url = args.record.url
    /\ state.published[1].slot # args.record.slot

(***************************************************************************)
(* C21..C30.                                                               *)
(***************************************************************************)
PastLoad == pc \notin {"idle", "loadState"}

\* C21: a state file that cannot be read or parsed makes the load fail fast:
\* the run ends at once as fatal, without a fetch, a publish attempt or a
\* write, and never goes on with an empty state; a run that got past the load
\* holds the dedup history of the file, and the empty one only when there is
\* no file.
C21_DamagedStoreIsFatal ==
    /\ [](PastLoad =>
            /\ ~loadStateThrows(stateFile)
            /\ storeOps[1] = "loadState"
            /\ loadedUrls = IF stateFile.exists THEN stateFile.content.publishedUrls ELSE {})
    /\ [][(pc = "loadState" /\ loadStateThrows(stateFile) /\ pc' # pc) =>
            (pc' = "idle" /\ UNCHANGED <<stateFile, wpSlugs, posted>>)]_vars

\* a run stands at the load of a damaged file that held a published link
C21_Witness ==
    /\ pc = "loadState"
    /\ loadStateThrows(stateFile)
    /\ stateFile.content.publishedUrls # {}
    /\ Len(posted) = 1

\* C22: a save is atomic for a reader of the same file: the file on disk is
\* never one that a save has written in part, no dashboard request fails on
\* such a file, a request answered while a run stands before its save gets
\* the complete previous state, and the save puts the complete new state in
\* its place in one step.
C22_SaveIsAtomicForReaders ==
    /\ [](loadStateThrows(stateFile) => stateFile.unparsable = "truncated")
    /\ [](dashboard.status = 500 => dashboard.error = "truncated")
    /\ [][(pc = "saveState" /\ dashboard' # dashboard) =>
            /\ dashboard'.status = 200
            /\ dashboard'.body \in {getRecentPublished(loadState(stateFile)),
                                   getRecentAuditLog(loadState(stateFile))}
            /\ (dashboard'.route = "posts" =>
                    {dashboard'.body[i].url : i \in DOMAIN dashboard'.body} = loadedUrls)]_vars
    /\ [][(pc = "saveState" /\ stateFile' # stateFile) =>
            (stateFile' = FileWith(state) /\ pc' = "idle")]_vars

\* a run stands before the save of a newly published record, and the
\* dashboard holds the complete list of the file, without that record
C22_Witness ==
    /\ pc = "saveState"
    /\ dashboard.status = 200
    /\ dashboard.route = "posts"
    /\ dashboard.body = getRecentPublished(loadState(stateFile))
    /\ Len(state.published) = Len(dashboard.body) + 1
    /\ Len(dashboard.body) = 1

CountOf(ops, op) == Cardinality({i \in DOMAIN ops : ops[i] = op})

\* C23: a run that passed the gate loads the state exactly once, before it
\* fetches or scores anything, and saves it exactly once, as the last store
\* call: until the final step of the run no save has been made and the file
\* is untouched, the final step of every path that is not fatal is the save
\* of the state in memory, and fetch and publish steps never end the run.
C23_LoadOnceSaveOnceLast ==
    /\ [](/\ (pc \in {"idle", "loadState"} =>
                (storeOps = <<>> /\ items = <<>> /\ candidates = <<>>))
          /\ (PastLoad =>
                /\ storeOps[1] = "loadState"
                /\ CountOf(storeOps, "loadState") = 1
                /\ CountOf(storeOps, "saveState") = 0))
    /\ [][/\ (stateFile' # stateFile => pc = "saveState")
          /\ (pc = "saveState" => (stateFile' = saveState(state) /\ pc' = "idle"))
          /\ (pc \in {"fetchAllFeeds", "publishPost"} => pc' # "idle")]_vars

\* a run stands before its save after one failed and one successful attempt
C23_Witness ==
    /\ pc = "saveState"
    /\ storeOps = <<"loadState", "addAuditLog", "addPublished", "addAuditLog">>

(***************************************************************************)
(* Ingestion harness: one call of fetchAllFeeds, step by step.  The feeds  *)
(* are fetched in batches; the fetches of a batch are started together and *)
(* settle in any order; Promise.all resolves when all of them have.        *)
(***************************************************************************)
MaxFeeds == 7

batchSize == 5

\* feed k of the configuration, and what its document holds when it can be
\* fetched and parsed
Source(k) ==
    [name |-> k, priority |-> k,
     upliftThresholdBoost |-> IF k % 2 = 0 THEN Defined(k) ELSE Undefined]

ParsedItems(k) ==
    [j \in 1..(1 + (k % 2)) |->
        [link |-> 10 * k + j, title |-> <<"a">>, description |-> <<>>, pubDate |-> NoDate,
         sourceName |-> k]]

FeedsInputs ==
    UNION {[fn : {"fetchAllFeeds"},
            feeds : {[k \in 1..n |-> Source(k)]},
            outcomes : {[k \in 1..n |-> IF k \in failing THEN FetchFailed
                                        ELSE Parsed(ParsedItems(k))]
                        : failing \in SUBSET (1..n)}]
           : n \in 0..MaxFeeds}

InitFeeds == HarnessInit(FeedsInputs)

\* the call rejected
Thrown == [done |-> TRUE, threw |-> TRUE]

Running(r) == ~r.done /\ "at" \in DOMAIN r

\* const results = []; the loop is entered
CallFetchAllFeeds ==
    /\ args.fn = "fetchAllFeeds"
    /\ ret = Pending
    /\ ret' = [done |-> FALSE, at |-> "for", i |-> 0, inFlight |-> {}, settled |-> <<>>,
               order |-> <<>>, results |-> <<>>]
    /\ UNCHANGED <<args, pubVars>>

\* batch.map(fetchSource): every fetch of the batch is started
StartBatch ==
    /\ Running(ret)
    /\ ret.at = "for"
    /\ ret.i < Len(args.feeds)
    /\ ret' = [ret EXCEPT !.at = "await",
                          !.inFlight = {k \in DOMAIN args.feeds :
                                          ret.i < k /\ k <= ret.i + batchSize}]
    /\ UNCHANGED <<args, pubVars>>

\* the same step with the try/catch of fetchSource lost: a failing source
\* rejects its promise, Promise.all rejects and so does the call
SourceSettlesUncaught(k) ==
    /\ Running(ret)
    /\ ret.at = "await"
    /\ k \in ret.inFlight
    /\ ret' = IF args.outcomes[k].ok
              THEN [ret EXCEPT !.inFlight = @ \ {k},
                               !.settled = (k :> fetchSource(args.feeds[k], args.outcomes[k])) @@ @,
                               !.order = Append(@, k)]
              ELSE Thrown
    /\ UNCHANGED <<args, pubVars>>

\* one fetchSource promise of the batch resolves, with the items of the
\* source or with []
SourceSettles(k) ==
    /\ Running(ret)
    /\ ret.at = "await"
    /\ k \in ret.inFlight
    /\ ret' = [ret EXCEPT !.inFlight = @ \ {k},
                          !.settled = (k :> fetchSource(args.feeds[k], args.outcomes[k])) @@ @,
                          !.order = Append(@, k)]
    /\ UNCHANGED <<args, pubVars>>

\* the results of the batch pushed in the order in which its fetches settled
BatchResolvesInCompletionOrder ==
    /\ Running(ret)
    /\ ret.at = "await"
    /\ ret.inFlight = {}
    /\ ret' = [ret EXCEPT !.at = "for",
                          !.i = @ + batchSize,
                          !.results = @ \o [j \in 1..Len(ret.order) |-> ret.settled[ret.order[j]]],
                          !.settled = <<>>,
                          !.order = <<>>]
    /\ UNCHANGED <<args, pubVars>>

\* Promise.all resolves with the results in the order of the batch;
\* results.push(...batchResults); i += batchSize
BatchResolves ==
    /\ Running(ret)
    /\ ret.at = "await"
    /\ ret.inFlight = {}
    /\ ret' = [ret EXCEPT !.at = "for",
                          !.i = @ + batchSize,
                          !.results = @ \o [j \in 1..Len(ret.order) |-> ret.settled[ret.i + j]],
                          !.settled = <<>>,
                          !.order = <<>>]
    /\ UNCHANGED <<args, pubVars>>

\* return results.flat()
ReturnAllItems ==
    /\ Running(ret)
    /\ ret.at = "for"
    /\ ret.i >= Len(args.feeds)
    /\ ret' = Returned(flat(ret.results))
    /\ UNCHANGED <<args, pubVars>>

NextFeeds ==
    \/ CallFetchAllFeeds
    \/ StartBatch
    \/ \E k \in 1..MaxFeeds : SourceSettles(k)
    \/ BatchResolves
    \/ ReturnAllItems

SpecFeeds == InitFeeds /\ [][NextFeeds]_vars

\* the links of the items of source k in a list, in the order of the list
LinksFrom(list, k) ==
    LET own == SelectSeq(list, LAMBDA it : it.sourceName = k)
    IN  [j \in 1..Len(own) |-> own[j].link]

\* C24: a source that cannot be fetched or parsed does not stop the others:
\* whatever subset of sources fails, the call of fetchAllFeeds never rejects
\* and can always go on until it returns, and what it returns holds, for each
\* source that succeeded, exactly that source's items, and no item of a
\* source that failed.
C24_FailuresIsolatedPerSource ==
    /\ (args.fn = "fetchAllFeeds" /\ ~ret.done) => ENABLED NextFeeds
    /\ (args.fn = "fetchAllFeeds" /\ ret.done) =>
          /\ "threw" \notin DOMAIN ret
          /\ \A k \in DOMAIN args.feeds :
                LinksFrom(ret.value, k) =
                    IF args.outcomes[k].ok
                    THEN [j \in 1..Len(args.outcomes[k].items) |-> args.outcomes[k].items[j].link]
                    ELSE <<>>
          /\ \A i \in DOMAIN ret.value :
                /\ ret.value[i].sourceName \in DOMAIN args.feeds
                /\ args.outcomes[ret.value[i].sourceName].ok

\* the call returned the items of the second and the last of seven sources
\* although the first and the sixth failed
C24_Witness ==
    /\ args.fn = "fetchAllFeeds"
    /\ ret.done
    /\ Len(args.feeds) = 7
    /\ ~args.outcomes[1].ok /\ args.outcomes[2].ok
    /\ ~args.outcomes[6].ok /\ args.outcomes[7].ok
    /\ LinksFrom(ret.value, 2) # <<>>
    /\ LinksFrom(ret.value, 7) # <<>>
    /\ LinksFrom(ret.value, 1) = <<>>

\* C30: fetchAllFeeds never has more than batchSize (5) fetches in flight,
\* starts the fetches of a batch only when every fetch of the batch before
\* has settled and its results are pushed, and returns the per-source lists
\* concatenated in the order of the feed configuration, in whatever order
\* the fetches settled.
C30_BatchedAndInConfigurationOrder ==
    /\ [](Running(ret) => Cardinality(ret.inFlight) <= batchSize)
    /\ [][(Running(ret) /\ Running(ret') /\ ~(ret'.inFlight \subseteq ret.inFlight)) =>
            /\ ret.inFlight = {}
            /\ ret.settled = <<>>
            /\ Len(ret.results) = ret.i
            /\ ret'.inFlight \subseteq (ret.i + 1)..(ret.i + batchSize)]_vars
    /\ []((args.fn = "fetchAllFeeds" /\ ret.done) =>
            /\ ret.value = fetchAllFeeds(args.feeds, args.outcomes)
            /\ \A i, j \in DOMAIN ret.value :
                  i < j => ret.value[i].sourceName <= ret.value[j].sourceName)

\* the second batch of seven sources is in flight after the five results of
\* the first were pushed, and its last source has settled before its first
C30_Witness ==
    /\ args.fn = "fetchAllFeeds"
    /\ Running(ret)
    /\ Len(args.feeds) = 7
    /\ args.outcomes[6].ok /\ args.outcomes[7].ok
    /\ ret.i = batchSize
    /\ Len(ret.results) = batchSize
    /\ ret.order = <<7>>
    /\ ret.inFlight = {6}

(***************************************************************************)
(* Rescoring harness: scoreItem called several times on the same item and  *)
(* configuration, with the clock advancing and another item scored in      *)
(* between.  The configuration is what parseYaml delivered, cast to Config *)
(* without validation: priorities and boosts are any numbers.              *)
(***************************************************************************)
MaxTicks == 2
MaxCalls == 3

LoadedPriorities == {-1, 2, 10}
LoadedBoosts ==
    {<<>>,
     <<[word |-> <<"a">>, boost |-> 15]>>,
     <<[word |-> <<"a">>, boost |-> 15], [word |-> <<"B">>, boost |-> -40]>>}
LoadedExcludes == {<<>>, <<<<"b", "b">>>>}

LoadedTitles == {<<"a">>, <<"B", "B">>, <<"a", "B">>, <<"<i>", " ">>}

OtherItem ==
    [title |-> <<"a">>, description |-> <<>>, priority |-> 10, upliftThresholdBoost |-> 0]

RescoreInputs ==
    [fn : {"scoreItem again"},
     item : [title : LoadedTitles, description : {<<>>, <<"<i>", "B">>},
             priority : LoadedPriorities,
             upliftThresholdBoost : ThresholdBoosts],
     config : [minUpliftScore : MinUpliftScores,
               hardExcludes : LoadedExcludes,
               positiveBoosts : LoadedBoosts]]

InitRescore == HarnessInit(RescoreInputs)

Calls(r) == IF "calls" \in DOMAIN r THEN r.calls ELSE <<>>

\* scoreItem(item, config) is called and returns
CallScoreItemAgain(item) ==
    /\ args.fn = "scoreItem again"
    /\ Len(Calls(ret)) < MaxCalls
    /\ ret' = [done |-> FALSE,
               calls |-> Append(Calls(ret), [item |-> item, at |-> now,
                                             result |-> scoreItem(item, args.config)])]
    /\ UNCHANGED <<args, pubVars>>

\* time passes between two calls
Tick ==
    /\ args.fn = "scoreItem again"
    /\ now < MaxTicks
    /\ now' = now + 1
    /\ UNCHANGED <<pureVars, systemZone, stateFile, wpSlugs, posted, runs, argv, dashboard, runVars>>

NextRescore ==
    \/ CallScoreItemAgain(args.item)
    \/ CallScoreItemAgain(OtherItem)
    \/ Tick

SpecRescore == InitRescore /\ [][NextRescore]_vars

C26_ScoreNeverNegative ==
    \A i \in DOMAIN Calls(ret) : Calls(ret)[i].result.upliftScore \in Nat

\* C26: a hard-excluded item scores 0, and any other item scores a
\* non-negative integer whenever its priority and the boost of every entry
\* that matches it are non-negative integers.
C26_ScoreNonNegativeForNonNegativeNumbers ==
    \A i \in DOMAIN Calls(ret) :
        LET call == Calls(ret)[i]
            boosts == args.config.positiveBoosts
        IN  /\ call.result.filterReason.kind = "hardExclude" => call.result.upliftScore = 0
            /\ (/\ call.item.priority \in Nat
                /\ \A b \in DOMAIN boosts :
                      KeywordMatches(call.item, boosts[b].word) => boosts[b].boost \in Nat)
               => call.result.upliftScore \in Nat

\* an item of priority 2 matched by a boost of 15 scored 21, with an entry of
\* negative boost configured that does not match it
C26_Witness ==
    /\ Len(Calls(ret)) >= 1
    /\ ret.calls[1].item.priority = 2
    /\ ret.calls[1].result.upliftScore = 21
    /\ Len(args.config.positiveBoosts) = 2
    /\ ~KeywordMatches(ret.calls[1].item, args.config.positiveBoosts[2].word)

PostedLinks == {posted[i].link : i \in DOMAIN posted}

RecordUrls(st) == {st.published[i].url : i \in DOMAIN st.published}

PublishedInThisRun == {attempts[i].link : i \in {j \in DOMAIN attempts : attempts[j].outcome = "published"}}

\* C27: only an item that publishPost has published is marked as published:
\* the dedup set and the records, in memory and in the file, hold links of
\* successful publishes only, a run adds to what it loaded nothing but the
\* link it published itself, and every fetched item whose link the loaded
\* state does not hold (capped, not reached or failed in an earlier run) is
\* among the items handed to scoring.
C27_OnlyThePublishedItemIsMarked ==
    /\ stateFile.content.publishedUrls \subseteq PostedLinks
    /\ RecordUrls(stateFile.content) = stateFile.content.publishedUrls
    /\ PastLoad =>
          /\ state.publishedUrls \subseteq PostedLinks
          /\ RecordUrls(state) = state.publishedUrls
          /\ state.publishedUrls = loadedUrls \cup PublishedInThisRun
    /\ pc \in {"ensureCategory", "postExists", "publishPost", "saveState"} =>
          \A i \in DOMAIN items :
              items[i].link \notin loadedUrls => \E j \in DOMAIN unpublished : unpublished[j] = items[i]

\* the second run is about to publish the item whose publish failed in the
\* first run, which then published another item
C27_Witness ==
    /\ runs = 2
    /\ pc = "publishPost"
    /\ Len(posted) = 1
    /\ posted[1].run = 1
    /\ candidates[cursor].link # posted[1].link
    /\ \E e \in DOMAIN stateFile.content.auditLog :
          /\ stateFile.content.auditLog[e].action = "error"
          /\ stateFile.content.auditLog[e].itemUrl = candidates[cursor].link
    /\ stateFile.content.publishedUrls = {posted[1].link}

Least(a, b) == IF a <= b THEN a ELSE b

PassingOf(list, src) ==
    Cardinality({i \in DOMAIN list : list[i].sourceName = src /\ list[i].passesFilter})

\* the most items a selection may hold: per source the smaller of the cap and
\* its passing items, summed over the sources and limited by count
GreedyMaximum(list, count, maxPerSource) ==
    Least(count,
          SumOver(SourcesOf(list),
                  [src \in SourcesOf(list) |-> Least(maxPerSource, PassingOf(list, src))]))

\* C28: selectBestItems is greedy-maximal: the output holds exactly
\* min(count, sum over the sources of min(maxPerSource, passing items of the
\* source)) items.
C28_LengthIsGreedyMaximum ==
    (args.fn = "selectBestItems" /\ ret.done) =>
        Len(ret.value) = GreedyMaximum(args.items, args.count, args.maxPerSource)

\* the audit entries and the published records this run has added so far
NewEntries ==
    SubSeq(state.auditLog, Len(loadState(stateFile).auditLog) + 1, Len(state.auditLog))

NewRecords ==
    SubSeq(state.published, Len(loadState(stateFile).published) + 1, Len(state.published))

HasAllFailedEntry == \E i \in DOMAIN NewEntries : NewEntries[i] = AllFailedEntry

PublishCalls == {k \in DOMAIN attempts : attempts[k].outcome \in {"published", "error"}}

====
